---- MODULE Spec2Model ----
(***************************************************************************)
(* A model of tools/self_heal.py: the CI self-healing patch engine.        *)
(*                                                                         *)
(* Text is modelled at character level: a Python str is a sequence of      *)
(* one-character strings, so that substring tests, replacements, line      *)
(* splitting and trimming are computed the way the code computes them.     *)
(* Sequences are 1-based here where Python is 0-based.                     *)
(***************************************************************************)
EXTENDS Integers, Sequences, FiniteSets, TLC

(***************************************************************************)
(* Characters and Python's str primitives                                  *)
(***************************************************************************)

\* The backtick character U+0060 (it cannot be written inside a TLA+ string).
BT == "bt"

\* "\n"
NL == "\n"

\* The characters str.strip() removes, among those the model's texts use.
Whitespace == {" ", "\t", "\n", "\r"}

\* The line boundaries of str.splitlines(), among those the model's texts use.
LineBreaks == {"\n", "\r"}

Min(S) == CHOOSE x \in S : \A y \in S : x <= y

\* s[i:i+len(p)] == p, with i 1-based
MatchAt(s, i, p) ==
    /\ i >= 1
    /\ i + Len(p) - 1 <= Len(s)
    /\ \A k \in 1..Len(p) : s[i + k - 1] = p[k]

\* str.find(p, start): the least 1-based index >= start where p occurs, 0 for -1
FindFrom(s, p, start) ==
    LET hits == {i \in start..(Len(s) - Len(p) + 1) : MatchAt(s, i, p)}
    IN  IF hits = {} THEN 0 ELSE Min(hits)

\* str.find(p)
Find(s, p) == FindFrom(s, p, 1)

\* p in s
Contains(s, p) == Find(s, p) # 0

\* str.startswith(p)
StartsWith(s, p) == MatchAt(s, 1, p)

RECURSIVE ReplaceFrom(_, _, _, _)
ReplaceFrom(s, old, new, i) ==
    LET at == FindFrom(s, old, i)
    IN  IF at = 0
        THEN SubSeq(s, i, Len(s))
        ELSE SubSeq(s, i, at - 1) \o new \o ReplaceFrom(s, old, new, at + Len(old))

\* str.replace(old, new) for a nonempty old: leftmost, non-overlapping
Replace(s, old, new) == ReplaceFrom(s, old, new, 1)

\* str.lstrip()
LStrip(s) ==
    LET keep == {i \in 1..Len(s) : s[i] \notin Whitespace}
    IN  IF keep = {} THEN <<>> ELSE SubSeq(s, Min(keep), Len(s))

\* str.strip()
Strip(s) ==
    LET keep == {i \in 1..Len(s) : s[i] \notin Whitespace}
    IN  IF keep = {} THEN <<>>
        ELSE SubSeq(s, Min(keep), CHOOSE j \in keep : \A i \in keep : i <= j)

\* str.rstrip("\n")
RStripNL(s) ==
    LET keep == {i \in 1..Len(s) : s[i] # NL}
    IN  IF keep = {} THEN <<>>
        ELSE SubSeq(s, 1, CHOOSE j \in keep : \A i \in keep : i <= j)

\* The length of the line boundary that starts at s[i]: "\r\n" is one boundary.
BreakLen(s, i) ==
    IF s[i] = "\r" /\ i < Len(s) /\ s[i + 1] = "\n" THEN 2 ELSE 1

RECURSIVE SplitFrom(_, _, _)
SplitFrom(s, i, keepends) ==
    IF i > Len(s) THEN <<>>
    ELSE LET brk == {j \in i..Len(s) : s[j] \in LineBreaks}
         IN  IF brk = {}
             THEN <<SubSeq(s, i, Len(s))>>
             ELSE LET j == Min(brk)
                      n == BreakLen(s, j)
                  IN  <<SubSeq(s, i, IF keepends THEN j + n - 1 ELSE j - 1)>>
                          \o SplitFrom(s, j + n, keepends)

\* str.splitlines(): no empty last line after a final line boundary
SplitLines(s) == SplitFrom(s, 1, FALSE)

\* str.splitlines(True)
SplitLinesKeep(s) == SplitFrom(s, 1, TRUE)

RECURSIVE Join(_, _)
\* sep.join(parts)
Join(parts, sep) ==
    IF Len(parts) = 0 THEN <<>>
    ELSE IF Len(parts) = 1 THEN parts[1]
    ELSE parts[1] \o sep \o Join(Tail(parts), sep)

(***************************************************************************)
(* The patch protocol: parse_patches                                       *)
(***************************************************************************)

\* "FILE:"
FILE_MARK == <<"F","I","L","E",":">>

\* "<<<END_FILE"
END_MARK == <<"<","<","<","E","N","D","_","F","I","L","E">>

\* "```"
FENCE == <<BT,BT,BT>>

\* The result of a call: what it returned, or the exception it raised.
Returned(v) == [raised |-> FALSE, value |-> v]

Raised(msg) == [raised |-> TRUE, value |-> msg]

\* "Missing terminator for file {path}"
MissingTerminator(path) == <<"Missing terminator for file">> \o <<path>>

\* parse_patches that keeps the newlines of the body as the model sent them
PatchOf_keep(path, buf) == [path |-> path, content |-> Join(buf, <<NL>>) \o <<NL>>]

\* The (path, content) tuple appended for one terminated block.
PatchOf(path, buf) == [path |-> path, content |-> RStripNL(Join(buf, <<NL>>)) \o <<NL>>]

\* The inner while: the first index >= i of a terminator line, Len(lines)+1 if none.
ScanBody(lines, i) ==
    LET ends == {j \in i..Len(lines) : Strip(lines[j]) = END_MARK}
    IN  IF ends = {} THEN Len(lines) + 1 ELSE Min(ends)

RECURSIVE ParseLoop_drop(_, _, _)
\* parse_patches that drops an unterminated last block instead of raising
ParseLoop_drop(lines, i, ps) ==
    IF i > Len(lines) THEN Returned(ps)
    ELSE IF StartsWith(Strip(lines[i]), FILE_MARK)
    THEN LET j == ScanBody(lines, i + 1)
         IN  IF j = Len(lines) + 1 THEN Returned(ps)
             ELSE ParseLoop_drop(lines, j + 1,
                      Append(ps, PatchOf(Strip(SubSeq(Strip(lines[i]), Len(FILE_MARK) + 1,
                                                     Len(Strip(lines[i])))),
                                         SubSeq(lines, i + 1, j - 1))))
    ELSE ParseLoop_drop(lines, i + 1, ps)

RECURSIVE ParseLoop(_, _, _)
\* The outer while of parse_patches, from line i with the patches so far.
ParseLoop(lines, i, patches) ==
    IF i > Len(lines) THEN Returned(patches)
    ELSE LET line == Strip(lines[i])
         IN  IF StartsWith(line, FILE_MARK)
             THEN LET path == Strip(SubSeq(line, Len(FILE_MARK) + 1, Len(line)))
                      j    == ScanBody(lines, i + 1)
                      buf  == SubSeq(lines, i + 1, j - 1)
                  IN  IF j = Len(lines) + 1
                      THEN Raised(MissingTerminator(path))
                      ELSE ParseLoop(lines, j + 1, Append(patches, PatchOf(path, buf)))
             ELSE ParseLoop(lines, i + 1, patches)

parse_patches(content) ==
    ParseLoop(SplitLines(Replace(content, FENCE, <<>>)), 1, <<>>)

(***************************************************************************)
(* Model responses: protocol text built from blocks, free text and fences  *)
(***************************************************************************)

\* The most well-terminated blocks a generated response holds.
MaxBlocks == 2

\* The path of the k-th block of a response: "a.t", "aa.t", ... (all distinct).
PathOf(k) == [i \in 1..k |-> "a"] \o <<".","t">>

\* The header line of the k-th block, plain or padded with whitespace.
HeaderLine(k, path) ==
    IF k % 2 = 1
    THEN FILE_MARK \o <<" ">> \o path
    ELSE <<" ">> \o FILE_MARK \o path \o <<" ","\t">>

\* The terminator line of the k-th block, plain or padded with whitespace.
TermLine(k) ==
    IF k % 2 = 1 THEN END_MARK ELSE <<" ">> \o END_MARK \o <<" ">>

\* File bodies, as lines: empty, one line, trailing blank lines, fenced,
\* and one that holds a line looking like a header.
Bodies ==
    { <<>>,
      << <<"x">> >>,
      << <<"x">>, <<>>, <<>> >>,
      << FENCE \o <<"p","s">>, <<" ","y">>, FENCE >>,
      << FILE_MARK \o <<" ","b">>, <<"x">> >> }

\* Free text between blocks, as lines: nothing, or chatter with a fence,
\* a stray terminator and a blank line.
Gaps ==
    { <<>>,
      << <<"h","i">>, FENCE, END_MARK, <<>> >> }

\* Line separators of a response, with whether the last line is terminated.
Eols == { [sep |-> <<"\n">>, final |-> FALSE], [sep |-> <<"\r","\n">>, final |-> TRUE] }

\* The block sequences of at most n blocks, each a body and the free text after it.
BlockSeqs(n) == UNION {[1..m -> Bodies \X Gaps] : m \in 0..n}

RECURSIVE BlockLines(_, _, _)
\* The lines of blocks k..Len(blocks), the k-th under the path paths[k].
BlockLines(blocks, paths, k) ==
    IF k > Len(blocks) THEN <<>>
    ELSE <<HeaderLine(k, paths[k])>> \o blocks[k][1] \o <<TermLine(k)>> \o blocks[k][2]
             \o BlockLines(blocks, paths, k + 1)

\* An unterminated last block: absent, or a header and a body to the end of input,
\* the body empty or holding a line that looks like a header.
OpenTails == {<<>>, << <<>> >>, << << FILE_MARK \o <<" ","b">>, <<"x">> >> >>}

\* The lines of a response: leading free text, the blocks, the open last block.
DocLines(d) ==
    d.lead \o BlockLines(d.blocks, d.paths, 1)
        \o (IF d.open = <<>> THEN <<>>
            ELSE <<HeaderLine(Len(d.paths), d.paths[Len(d.paths)])>> \o d.open[1])

\* The response text of d.
Render(d) ==
    Join(DocLines(d), d.eol.sep) \o (IF d.eol.final THEN d.eol.sep ELSE <<>>)

\* A response: its parts, and the path of each header in order.
Doc(lead, blocks, open, eol, paths) ==
    [lead |-> lead, blocks |-> blocks, open |-> open, eol |-> eol, paths |-> paths]

\* The number of headers of a response of these blocks and this last block.
Headers(blocks, open) == Len(blocks) + (IF open = <<>> THEN 0 ELSE 1)

\* The responses of at most n well-terminated blocks, the k-th header naming PathOf(k).
Docs(n) ==
    {Doc(l, b, o, e, [i \in 1..Headers(b, o) |-> PathOf(i)]) :
        l \in Gaps, b \in BlockSeqs(n), o \in OpenTails, e \in Eols}

(***************************************************************************)
(* Paths and the file system                                               *)
(*                                                                         *)
(* A resolved path is the sequence of its components below "/"; the file   *)
(* system is the set of directories and the contents of the regular files. *)
(* It holds no symbolic links.                                             *)
(***************************************************************************)

\* REPO_ROOT: the directory above tools/, here /r
REPO_ROOT == << <<"r">> >>

\* LOG_DIR = REPO_ROOT / "gh_run_logs"
LOG_DIR == REPO_ROOT \o << <<"g","h","_","r","u","n","_","l","o","g","s">> >>

\* REPO_ROOT / "tools" / "common.ps1"
COMMON_PS1 ==
    REPO_ROOT \o << <<"t","o","o","l","s">>, <<"c","o","m","m","o","n",".","p","s","1">> >>

\* p is q or an ancestor of q
IsPrefix(p, q) == Len(p) <= Len(q) /\ SubSeq(q, 1, Len(p)) = p

\* Path.parents: the proper ancestors of p, "/" included
Parents(p) == {SubSeq(p, 1, n) : n \in 0..(Len(p) - 1)}

\* Path.parent ("/" is its own parent)
Parent(p) == IF p = <<>> THEN <<>> ELSE SubSeq(p, 1, Len(p) - 1)

RECURSIVE SplitSlash(_, _)
\* The pieces of s[i..] between "/" characters.
SplitSlash(s, i) ==
    LET cut == {j \in i..Len(s) : s[j] = "/"}
    IN  IF cut = {} THEN <<SubSeq(s, i, Len(s))>>
        ELSE <<SubSeq(s, i, Min(cut) - 1)>> \o SplitSlash(s, Min(cut) + 1)

\* The parts pathlib keeps of a path string: empty pieces and "." are dropped.
PathParts(s) == SelectSeq(SplitSlash(s, 1), LAMBDA c : c # <<>> /\ c # <<".">>)

RECURSIVE Normalize(_, _)
\* Path.resolve() without symbolic links: ".." steps up, and "/.." is "/".
Normalize(done, parts) ==
    IF parts = <<>> THEN done
    ELSE IF Head(parts) = <<".",".">>
         THEN Normalize(Parent(done), Tail(parts))
         ELSE Normalize(Append(done, Head(parts)), Tail(parts))

\* (REPO_ROOT / rel_path).resolve(): an absolute rel_path replaces REPO_ROOT
ResolveInRepo(rel_path) ==
    IF Len(rel_path) > 0 /\ rel_path[1] = "/"
    THEN Normalize(<<>>, PathParts(rel_path))
    ELSE Normalize(REPO_ROOT, PathParts(rel_path))

\* not (REPO_ROOT not in target.parents and target != REPO_ROOT)
PathAccepted(target) == REPO_ROOT \in Parents(target) \/ target = REPO_ROOT

\* Whether the file system holds something at p.
Exists(fs, p) == p \in fs.dirs \/ p \in DOMAIN fs.files

\* shutil.rmtree(p): p and everything below it is removed
Rmtree(fs, p) ==
    [dirs  |-> {d \in fs.dirs : ~IsPrefix(p, d)},
     files |-> [f \in {g \in DOMAIN fs.files : ~IsPrefix(p, g)} |-> fs.files[f]]]

\* Path.mkdir(parents=True, exist_ok=True) fails when p or an ancestor is a file.
MkdirFails(fs, p) == \E n \in 0..Len(p) : SubSeq(p, 1, n) \in DOMAIN fs.files

\* Path.mkdir(parents=True, exist_ok=True)
Mkdir(fs, p) ==
    [dirs |-> fs.dirs \cup {SubSeq(p, 1, n) : n \in 0..Len(p)}, files |-> fs.files]

\* Path.write_text fails when p is a directory.
WriteFails(fs, p) == p \in fs.dirs

\* Path.write_text(content)
WriteText(fs, p, content) ==
    [dirs  |-> fs.dirs,
     files |-> [f \in DOMAIN fs.files \cup {p} |-> IF f = p THEN content ELSE fs.files[f]]]

\* The paths git status --porcelain lists: files that differ from the commit.
StatusOf(fs, commit) ==
    {p \in DOMAIN fs.files \cup DOMAIN commit :
        \/ p \notin DOMAIN commit
        \/ p \notin DOMAIN fs.files
        \/ fs.files[p] # commit[p]}

(***************************************************************************)
(* The deterministic fixers of tools/common.ps1                            *)
(***************************************************************************)

\* The literal \[uint32\] of the pattern \[uint32\]\s*0xFFFFFFFF
RE_UINT32 ==
    <<"[","u","i","n","t","3","2","]">>

\* The literal 0xFFFFFFFF of the pattern
RE_HEX ==
    <<"0","x","F","F","F","F","F","F","F","F">>

\* "[uint32]::MaxValue"
UINT32_MAX ==
    <<"[","u","i","n","t","3","2","]",":",":","M","a","x","V","a","l","u","e">>

\* helper: the text of function Get-SubnetAddressPrefixes, 19 lines
HELPER ==
    <<"f","u","n","c","t","i","o","n"," ","G","e","t","-","S","u","b","n","e","t","A","d","d",
      "r","e","s","s","P","r","e","f","i","x","e","s"," ","{","\n"," "," ","p","a","r","a","m",
      "(","[","P","a","r","a","m","e","t","e","r","(","M","a","n","d","a","t","o","r","y",")",
      "]"," ","$","S","u","b","n","e","t","O","b","j",")","\n","\n"," "," ","$","p","r","e","f",
      "i","x","e","s"," ","="," ","@","(",")","\n"," "," ","i","f"," ","(","$","n","u","l","l",
      " ","-","e","q"," ","$","S","u","b","n","e","t","O","b","j",")"," ","{"," ","r","e","t",
      "u","r","n"," ","@","(",")"," ","}","\n","\n"," "," ","i","f"," ","(","$","n","u","l","l",
      " ","-","n","e"," ","$","S","u","b","n","e","t","O","b","j",".","P","S","O","b","j","e",
      "c","t",".","P","r","o","p","e","r","t","i","e","s","[","'","a","d","d","r","e","s","s",
      "P","r","e","f","i","x","'","]",")"," ","{","\n"," "," "," "," ","$","p","r","e","f","i",
      "x","e","s"," ","+","="," ","@","(","$","S","u","b","n","e","t","O","b","j",".","a","d",
      "d","r","e","s","s","P","r","e","f","i","x",")","\n"," "," ","}","\n"," "," ","i","f"," ",
      "(","$","n","u","l","l"," ","-","n","e"," ","$","S","u","b","n","e","t","O","b","j",".",
      "P","S","O","b","j","e","c","t",".","P","r","o","p","e","r","t","i","e","s","[","'","a",
      "d","d","r","e","s","s","P","r","e","f","i","x","e","s","'","]",")"," ","{","\n"," "," ",
      " "," ","$","p","r","e","f","i","x","e","s"," ","+","="," ","@","(","$","S","u","b","n",
      "e","t","O","b","j",".","a","d","d","r","e","s","s","P","r","e","f","i","x","e","s",")",
      "\n"," "," ","}","\n","\n"," "," ","r","e","t","u","r","n"," ","@","(","\n"," "," "," ",
      " ","$","p","r","e","f","i","x","e","s"," ","|","\n"," "," "," "," "," "," ","W","h","e",
      "r","e","-","O","b","j","e","c","t"," ","{"," ","-","n","o","t"," ","[","s","t","r","i",
      "n","g","]",":",":","I","s","N","u","l","l","O","r","W","h","i","t","e","S","p","a","c",
      "e","(","$","_",")"," ","}"," ","|","\n"," "," "," "," "," "," ","F","o","r","E","a","c",
      "h","-","O","b","j","e","c","t"," ","{"," ","$","_",".","T","o","S","t","r","i","n","g",
      "(",")",".","T","r","i","m","(",")"," ","}","\n"," "," ",")","\n","}","\n">>

\* "function Get-SubnetAddressPrefixes"
HELPER_NAME ==
    <<"f","u","n","c","t","i","o","n"," ","G","e","t","-","S","u","b","n","e","t","A","d","d",
      "r","e","s","s","P","r","e","f","i","x","e","s">>

\* "function Test-CidrOverlap {"
OVERLAP_MARKER ==
    <<"f","u","n","c","t","i","o","n"," ","T","e","s","t","-","C","i","d","r","O","v","e","r",
      "l","a","p"," ","{">>

\* "Prefixes = @($_.addressPrefix) + @($_.addressPrefixes)"
CALL_A ==
    <<"P","r","e","f","i","x","e","s"," ","="," ","@","(","$","_",".","a","d","d","r","e","s",
      "s","P","r","e","f","i","x",")"," ","+"," ","@","(","$","_",".","a","d","d","r","e","s",
      "s","P","r","e","f","i","x","e","s",")">>

\* "Prefixes = (Get-SubnetAddressPrefixes -SubnetObj $_)"
CALL_A_FIXED ==
    <<"P","r","e","f","i","x","e","s"," ","="," ","(","G","e","t","-","S","u","b","n","e","t",
      "A","d","d","r","e","s","s","P","r","e","f","i","x","e","s"," ","-","S","u","b","n","e",
      "t","O","b","j"," ","$","_",")">>

\* "$existingPrefixes = @($existing.addressPrefix) + @($existing.addressPrefixes)"
CALL_B ==
    <<"$","e","x","i","s","t","i","n","g","P","r","e","f","i","x","e","s"," ","="," ","@","(",
      "$","e","x","i","s","t","i","n","g",".","a","d","d","r","e","s","s","P","r","e","f","i",
      "x",")"," ","+"," ","@","(","$","e","x","i","s","t","i","n","g",".","a","d","d","r","e",
      "s","s","P","r","e","f","i","x","e","s",")">>

\* "$existingPrefixes = Get-SubnetAddressPrefixes -SubnetObj $existing"
CALL_B_FIXED ==
    <<"$","e","x","i","s","t","i","n","g","P","r","e","f","i","x","e","s"," ","="," ","G","e",
      "t","-","S","u","b","n","e","t","A","d","d","r","e","s","s","P","r","e","f","i","x","e",
      "s"," ","-","S","u","b","n","e","t","O","b","j"," ","$","e","x","i","s","t","i","n","g">>

\* "function Convert-CidrToRange {"
CIDR_MARKER ==
    <<"f","u","n","c","t","i","o","n"," ","C","o","n","v","e","r","t","-","C","i","d","r","T",
      "o","R","a","n","g","e"," ","{">>

\* "Invalid CIDR format"
INVALID_CIDR ==
    <<"I","n","v","a","l","i","d"," ","C","I","D","R"," ","f","o","r","m","a","t">>

\* "Invalid prefix length in CIDR"
INVALID_PREFIX ==
    <<"I","n","v","a","l","i","d"," ","p","r","e","f","i","x"," ","l","e","n","g","t","h"," ",
      "i","n"," ","C","I","D","R">>

\* "param("
PARAM_OPEN ==
    <<"p","a","r","a","m","(">>

\* The seven lines appended after the param line.
CIDR_CHECKS ==
    <<" "," ","i","f"," ","(","[","s","t","r","i","n","g","]",":",":","I","s","N","u","l","l",
      "O","r","W","h","i","t","e","S","p","a","c","e","(","$","C","i","d","r",")",")"," ","{",
      "\n"," "," "," "," ","t","h","r","o","w"," ","\"","I","n","v","a","l","i","d"," ","C","I",
      "D","R"," ","f","o","r","m","a","t",":"," ","<","e","m","p","t","y",">","\"","\n"," "," ",
      "}","\n"," "," ","$","C","i","d","r"," ","="," ","$","C","i","d","r",".","T","r","i","m",
      "(",")","\n"," "," ","i","f"," ","(","-","n","o","t"," ","(","$","C","i","d","r"," ","-",
      "m","a","t","c","h"," ","'","^","\\","d","{","1",",","3","}","(","\\",".","\\","d","{",
      "1",",","3","}",")","{","3","}","/","\\","d","{","1",",","2","}","$","'",")",")"," ","{",
      "\n"," "," "," "," ","t","h","r","o","w"," ","\"","I","n","v","a","l","i","d"," ","C","I",
      "D","R"," ","f","o","r","m","a","t",":"," ","$","C","i","d","r","\"","\n"," "," ","}","\n">>

\* "$prefix = [int]$parts[1]"
PREFIX_PARSE ==
    <<"$","p","r","e","f","i","x"," ","="," ","[","i","n","t","]","$","p","a","r","t","s","[",
      "1","]">>

\* The two lines replaced: the prefix parse and the $ipInt line after it.
PREFIX_OLD ==
    <<"$","p","r","e","f","i","x"," ","="," ","[","i","n","t","]","$","p","a","r","t","s","[",
      "1","]","\n"," "," ","$","i","p","I","n","t"," ","="," ","C","o","n","v","e","r","t","-",
      "I","P","v","4","T","o","U","I","n","t","3","2"," ","-","I","p"," ","$","i","p","\n">>

\* Their replacement: the prefix range check and the IP parse between them.
PREFIX_NEW ==
    <<"$","p","r","e","f","i","x"," ","="," ","[","i","n","t","]","$","p","a","r","t","s","[",
      "1","]","\n"," "," ","i","f"," ","(","$","p","r","e","f","i","x"," ","-","l","t"," ","0",
      " ","-","o","r"," ","$","p","r","e","f","i","x"," ","-","g","t"," ","3","2",")"," ","{",
      "\n"," "," "," "," ","t","h","r","o","w"," ","\"","I","n","v","a","l","i","d"," ","p","r",
      "e","f","i","x"," ","l","e","n","g","t","h"," ","i","n"," ","C","I","D","R",":"," ","$",
      "C","i","d","r","\"","\n"," "," ","}","\n"," "," ","t","r","y"," ","{","\n"," "," "," ",
      " ","[","v","o","i","d","]","[","S","y","s","t","e","m",".","N","e","t",".","I","P","A",
      "d","d","r","e","s","s","]",":",":","P","a","r","s","e","(","$","i","p",")","\n"," "," ",
      "}"," ","c","a","t","c","h"," ","{","\n"," "," "," "," ","t","h","r","o","w"," ","\"","I",
      "n","v","a","l","i","d"," ","I","P"," ","i","n"," ","C","I","D","R",":"," ","$","C","i",
      "d","r","\"","\n"," "," ","}","\n"," "," ","$","i","p","I","n","t"," ","="," ","C","o",
      "n","v","e","r","t","-","I","P","v","4","T","o","U","I","n","t","3","2"," ","-","I","p",
      " ","$","i","p","\n">>

\* "The property 'addressPrefixes' cannot be found on this object"
SIG_PROPERTY ==
    <<"T","h","e"," ","p","r","o","p","e","r","t","y"," ","'","a","d","d","r","e","s","s","P",
      "r","e","f","i","x","e","s","'"," ","c","a","n","n","o","t"," ","b","e"," ","f","o","u",
      "n","d"," ","o","n"," ","t","h","i","s"," ","o","b","j","e","c","t">>

\* "addressPrefixes cannot be found"
SIG_PREFIXES ==
    <<"a","d","d","r","e","s","s","P","r","e","f","i","x","e","s"," ","c","a","n","n","o","t",
      " ","b","e"," ","f","o","u","n","d">>

\* "Cannot convert value \"-1\" to type \"System.UInt32\""
SIG_UINT32 ==
    <<"C","a","n","n","o","t"," ","c","o","n","v","e","r","t"," ","v","a","l","u","e"," ","\"",
      "-","1","\""," ","t","o"," ","t","y","p","e"," ","\"","S","y","s","t","e","m",".","U","I",
      "n","t","3","2","\"">>

\* "Convert-CidrToRange"
SIG_CIDR_NAME ==
    <<"C","o","n","v","e","r","t","-","C","i","d","r","T","o","R","a","n","g","e">>

\* What a fixer did: the text of the file afterwards and the bool it returned.
FixResult(text, changed) == [text |-> text, changed |-> changed]

\* The lower-case form of the letters of the pattern (re.IGNORECASE).
LowerOf == [U |-> "u", I |-> "i", N |-> "n", T |-> "t", X |-> "x", F |-> "f"]

Lower(c) == IF c \in DOMAIN LowerOf THEN LowerOf[c] ELSE c

\* p matches at s[i], ignoring case
MatchAtCI(s, i, p) ==
    /\ i >= 1
    /\ i + Len(p) - 1 <= Len(s)
    /\ \A n \in 1..Len(p) : Lower(s[i + n - 1]) = Lower(p[n])

\* The characters \s matches, among those the model's texts use.
RegexSpace == {" ", "\t", "\n", "\r"}

\* Where a match of \[uint32\]\s*0xFFFFFFFF that starts at s[i] ends (the index
\* after it), 0 when none starts there. \s* is greedy and never gives back,
\* since the character after it is no space.
MatchEnd(s, i) ==
    IF ~MatchAtCI(s, i, RE_UINT32) THEN 0
    ELSE LET from  == i + Len(RE_UINT32)
             stops == {j \in from..Len(s) : s[j] \notin RegexSpace}
             j     == IF stops = {} THEN Len(s) + 1 ELSE Min(stops)
         IN  IF MatchAtCI(s, j, RE_HEX) THEN j + Len(RE_HEX) ELSE 0

RECURSIVE SubFrom(_, _)
\* re.sub from s[i]: leftmost matches, each replaced, the scan resumed after it
SubFrom(s, i) ==
    LET starts == {n \in i..Len(s) : MatchEnd(s, n) # 0}
    IN  IF starts = {} THEN SubSeq(s, i, Len(s))
        ELSE LET n == Min(starts)
             IN  SubSeq(s, i, n - 1) \o UINT32_MAX \o SubFrom(s, MatchEnd(s, n))

\* fix_common_ps_uint32_hex_overflow on the text of an existing file
fix_common_ps_uint32_hex_overflow(original) ==
    LET text == SubFrom(original, 1)
    IN  FixResult(text, text # original)

\* text after the helper was put before the anchor, when it was missing
InsertHelper(text) ==
    IF ~Contains(text, HELPER_NAME)
    THEN LET idx == Find(text, OVERLAP_MARKER)
         IN  IF idx # 0
             THEN SubSeq(text, 1, idx - 1) \o HELPER \o <<NL>> \o SubSeq(text, idx, Len(text))
             ELSE text
    ELSE text

\* fix_common_ps_address_prefixes on the text of an existing file
fix_common_ps_address_prefixes(original) ==
    LET text1 == InsertHelper(original)
        text2 == Replace(text1, CALL_A, CALL_A_FIXED)
        text3 == Replace(text2, CALL_B, CALL_B_FIXED)
    IN  FixResult(text3, text3 # original)

RECURSIVE InsertChecks(_, _, _, _)
\* The for loop over the lines from line i: out, with in_target and inserted.
InsertChecks(lines, i, in_target, inserted) ==
    IF i > Len(lines) THEN <<>>
    ELSE LET line == lines[i]
         IN  IF Strip(line) = CIDR_MARKER
             THEN line \o InsertChecks(lines, i + 1, TRUE, inserted)
             ELSE IF in_target /\ ~inserted /\ StartsWith(Strip(line), PARAM_OPEN)
             THEN line \o CIDR_CHECKS \o InsertChecks(lines, i + 1, in_target, TRUE)
             ELSE line \o InsertChecks(lines, i + 1, in_target, inserted)

\* The conservative replace of the prefix parse, when its check is missing.
AddPrefixCheck(text2) ==
    IF Contains(text2, PREFIX_PARSE) /\ ~Contains(text2, INVALID_PREFIX)
    THEN Replace(text2, PREFIX_OLD, PREFIX_NEW)
    ELSE text2

\* fix_common_ps_cidr_validation on the text of an existing file
fix_common_ps_cidr_validation(original) ==
    IF Find(original, CIDR_MARKER) = 0 THEN FixResult(original, FALSE)
    ELSE IF Contains(original, INVALID_CIDR) \/ Contains(original, INVALID_PREFIX)
    THEN FixResult(original, FALSE)
    ELSE LET text2 == AddPrefixCheck(InsertChecks(SplitLinesKeep(original), 1, FALSE, FALSE))
         IN  FixResult(text2, text2 # original)

\* "The property 'addressPrefixes' cannot be found on this object" in logs
\* or "addressPrefixes cannot be found" in logs
PrefixSignature(logs) == Contains(logs, SIG_PROPERTY) \/ Contains(logs, SIG_PREFIXES)

\* The condition under which try_builtin_fixes runs the CIDR validation fixer.
CidrSignature(logs) ==
    \/ Contains(logs, SIG_UINT32)
    \/ Contains(logs, INVALID_CIDR)
    \/ Contains(logs, INVALID_PREFIX)
    \/ Contains(logs, SIG_CIDR_NAME)

\* One fixer on the file system: unchanged and False when the file is missing,
\* written when the fixer changed the text.
RunFixer(fs, fixed) ==
    IF fixed.changed THEN WriteText(fs, COMMON_PS1, fixed.text) ELSE fs

\* try_builtin_fixes(logs): the file system afterwards, the fixers that ran in
\* order with what each returned, and the bool returned.
try_builtin_fixes(fs, logs) ==
    LET has == COMMON_PS1 \in DOMAIN fs.files
        r1  == IF has THEN fix_common_ps_uint32_hex_overflow(fs.files[COMMON_PS1])
               ELSE FixResult(<<>>, FALSE)
        fs1 == RunFixer(fs, r1)
        g2  == PrefixSignature(logs)
        r2  == IF g2 /\ has THEN fix_common_ps_address_prefixes(fs1.files[COMMON_PS1])
               ELSE FixResult(<<>>, FALSE)
        fs2 == RunFixer(fs1, r2)
        g3  == CidrSignature(logs)
        r3  == IF g3 /\ has THEN fix_common_ps_cidr_validation(fs2.files[COMMON_PS1])
               ELSE FixResult(<<>>, FALSE)
        fs3 == RunFixer(fs2, r3)
    IN  [fs      |-> fs3,
         ran     |-> <<[fixer |-> "fix_common_ps_uint32_hex_overflow", changed |-> r1.changed]>>
                     \o (IF g2 THEN <<[fixer |-> "fix_common_ps_address_prefixes",
                                       changed |-> r2.changed]>> ELSE <<>>)
                     \o (IF g3 THEN <<[fixer |-> "fix_common_ps_cidr_validation",
                                       changed |-> r3.changed]>> ELSE <<>>),
         changed |-> r1.changed \/ r2.changed \/ r3.changed]

(***************************************************************************)
(* Log retrieval and log reduction                                         *)
(***************************************************************************)

\* "logs_unavailable.txt"
UNAVAILABLE_TXT ==
    <<"l","o","g","s","_","u","n","a","v","a","i","l","a","b","l","e",".","t","x","t">>

\* "logs_download_failed.txt"
DOWNLOAD_FAILED_TXT ==
    <<"l","o","g","s","_","d","o","w","n","l","o","a","d","_","f","a","i","l","e","d",".","t",
      "x","t">>

\* "Logs endpoint did not return zip. status="
UNAVAILABLE_MSG ==
    <<"L","o","g","s"," ","e","n","d","p","o","i","n","t"," ","d","i","d"," ","n","o","t"," ",
      "r","e","t","u","r","n"," ","z","i","p","."," ","s","t","a","t","u","s","=">>

\* "Redirected logs download failed: "
DOWNLOAD_FAILED_MSG ==
    <<"R","e","d","i","r","e","c","t","e","d"," ","l","o","g","s"," ","d","o","w","n","l","o",
      "a","d"," ","f","a","i","l","e","d",":"," ">>

\* MAX_LOG_CHARS
MAX_LOG_CHARS == 100000

\* The status codes download_logs follows as redirects.
RedirectCodes ==
    { <<"3","0","1">>, <<"3","0","2">>, <<"3","0","3">>, <<"3","0","7">>, <<"3","0","8">> }

\* 200
OK_CODE == <<"2","0","0">>

\* The characters of the log file names, in code point order.
CodePointOrder ==
    <<".","0","1","2","3","4","5","6","7","8","9","_","a","b","c","d","e","f","g","h","i",
      "j","k","l","m","n","o","p","q","r","s","t","u","v","w","x","y","z">>

Rank(c) == CHOOSE i \in 1..Len(CodePointOrder) : CodePointOrder[i] = c

\* a < b for two str
StrLess(a, b) ==
    LET n    == IF Len(a) < Len(b) THEN Len(a) ELSE Len(b)
        diff == {i \in 1..n : a[i] # b[i]}
    IN  IF diff = {} THEN Len(a) < Len(b)
        ELSE Rank(a[Min(diff)]) < Rank(b[Min(diff)])

\* p < q for two Path: their parts compared in order
PathLess(p, q) ==
    LET n    == IF Len(p) < Len(q) THEN Len(p) ELSE Len(q)
        diff == {i \in 1..n : p[i] # q[i]}
    IN  IF diff = {} THEN Len(p) < Len(q)
        ELSE StrLess(p[Min(diff)], q[Min(diff)])

RECURSIVE SortedPaths(_)
\* sorted(S) for a set S of Path
SortedPaths(S) ==
    IF S = {} THEN <<>>
    ELSE LET least == CHOOSE p \in S : \A q \in S \ {p} : PathLess(p, q)
         IN  <<least>> \o SortedPaths(S \ {least})

\* zf.extractall(LOG_DIR): the members that were written, each below LOG_DIR
ExtractAll(fs, bundle) ==
    [dirs  |-> fs.dirs,
     files |-> [f \in DOMAIN fs.files \cup {Append(LOG_DIR, m) : m \in DOMAIN bundle} |->
                   IF IsPrefix(LOG_DIR, f) /\ Len(f) = Len(LOG_DIR) + 1
                        /\ f[Len(f)] \in DOMAIN bundle
                   THEN bundle[f[Len(f)]] ELSE fs.files[f]]]

\* resp.text[:2000]
TextHead(text) == SubSeq(text, 1, IF Len(text) < 2000 THEN Len(text) ELSE 2000)

\* The placeholder written below LOG_DIR: the message, the status and the text.
Placeholder(fs, name, msg, resp) ==
    WriteText(fs, Append(LOG_DIR, name), msg \o resp.status \o <<NL>> \o TextHead(resp.text) \o <<NL>>)

\* The try around ZipFile(...).extractall: whether it returned, and the file system.
\* A body whose zip is "valid" extracts all its members; one that is "partial" raises
\* after the members of its bundle were written; any other body raises at once.
TryExtract(fs, resp) ==
    [returned |-> resp.zip = "valid",
     fs       |-> IF resp.zip \in {"valid", "partial"} THEN ExtractAll(fs, resp.bundle) ELSE fs]

\* download_logs(repo, run_id, token) when the first GET answers first and the GET of
\* the redirect target answers second: the file system afterwards, and how the call
\* ended: the archive extracted, a placeholder written, or a GET raised (requests
\* raises on a connection failure or a timeout, and nothing here catches it).
download_logs(fs, first, second) ==
    LET fs0 == Mkdir(IF Exists(fs, LOG_DIR) THEN Rmtree(fs, LOG_DIR) ELSE fs, LOG_DIR)
    IN  IF first.error THEN [end |-> "GET raised", fs |-> fs0]
        ELSE IF first.status \in RedirectCodes /\ first.location
        THEN IF second.error THEN [end |-> "GET raised", fs |-> fs0]
             ELSE LET ex == TryExtract(fs0, second)
                  IN  IF second.status = OK_CODE /\ ex.returned
                      THEN [end |-> "extracted", fs |-> ex.fs]
                      ELSE [end |-> "placeholder",
                            fs |-> Placeholder(IF second.status = OK_CODE THEN ex.fs ELSE fs0,
                                               DOWNLOAD_FAILED_TXT, DOWNLOAD_FAILED_MSG, second)]
        ELSE LET ex == TryExtract(fs0, first)
             IN  IF first.status = OK_CODE /\ ex.returned
                 THEN [end |-> "extracted", fs |-> ex.fs]
                 ELSE [end |-> "placeholder",
                       fs |-> Placeholder(IF first.status = OK_CODE THEN ex.fs ELSE fs0,
                                          UNAVAILABLE_TXT, UNAVAILABLE_MSG, first)]

\* The part of one log file: "--- {relative path} ---\n{text}\n"
LogPart(fs, path) ==
    <<"-","-","-"," ">> \o Join(SubSeq(path, Len(LOG_DIR) + 1, Len(path)), <<"/">>)
        \o <<" ","-","-","-","\n">> \o fs.files[path] \o <<NL>>

\* A cut that keeps the first MAX_LOG_CHARS characters instead of the last.
TailCut_head(s) ==
    IF Len(s) > MAX_LOG_CHARS THEN SubSeq(s, 1, MAX_LOG_CHARS) ELSE s

\* s[-MAX_LOG_CHARS:] when s is longer than MAX_LOG_CHARS, else s
TailCut(s) ==
    IF Len(s) > MAX_LOG_CHARS THEN SubSeq(s, Len(s) - MAX_LOG_CHARS + 1, Len(s)) ELSE s

\* combined = "\n".join(parts): the parts of the files below LOG_DIR, in sorted order
CombinedLogs(fs) ==
    LET paths == SortedPaths({p \in DOMAIN fs.files : IsPrefix(LOG_DIR, p) /\ p # LOG_DIR})
    IN  Join([i \in 1..Len(paths) |-> LogPart(fs, paths[i])], <<NL>>)

\* collect_logs_text(): combined, cut to its last MAX_LOG_CHARS characters
collect_logs_text(fs) == TailCut(CombinedLogs(fs))

(***************************************************************************)
(* The orchestrator: main and the __main__ guard                           *)
(***************************************************************************)

VARIABLES
    pc,         \* the statement about to run
    env,        \* os.environ: whether each variable holds a nonempty value
    fs,         \* the file system: [dirs, files]
    head,       \* the files of the last commit of the checked-out branch
    index,      \* what git add staged: <<>> or <<the staged files>>
    remote,     \* the files of the branch on origin
    logs_text,  \* main's logs_text
    response,   \* main's response
    patches,    \* main's patches
    doc,        \* the blocks and free text the response was written from
    k,          \* the patch apply_patches is at (1-based)
    exc,        \* the exception that is propagating, if any
    hist,       \* the calls made and the lines printed, in order
    exitCode,   \* the exit status of the process, -1 while it runs
    probe       \* the log files collect_logs_text is called on by itself, if any

vars ==
    <<pc, env, fs, head, index, remote, logs_text, response, patches, doc, k, exc, hist, exitCode,
      probe>>

RequiredEnv == {"GITHUB_REPOSITORY", "GITHUB_RUN_ID", "GITHUB_REF_NAME"}

OptionalEnv == {"OPENAI_API_KEY", "REPO_WRITE_TOKEN"}

\* One entry of hist.
Ev(e, a) == [ev |-> e, arg |-> a]

NoExc == [type |-> "none", msg |-> <<>>]

\* Whether the event e is in hist.
Happened(e) == \E i \in 1..Len(hist) : hist[i].ev = e

\* The places of the event e in hist.
Places(e) == {i \in 1..Len(hist) : hist[i].ev = e}

\* The statement raises: the exception leaves main, to the except clause of __main__.
Raise(type, msg, events) ==
    /\ pc' = "except"
    /\ exc' = [type |-> type, msg |-> msg]
    /\ hist' = hist \o events

\* main returns: the statement after the try of __main__ runs next.
Return(events) ==
    /\ pc' = "sys_exit"
    /\ hist' = hist \o events
    /\ exc' = exc

\* The next statement of main is at.
Goto(at, events) ==
    /\ pc' = at
    /\ hist' = hist \o events
    /\ exc' = exc

\* A main that goes on to the logs without the write credential.
ReadEnv_lenient ==
    /\ pc = "main"
    /\ IF \E v \in RequiredEnv : ~env[v]
       THEN Raise("ValueError", <<"Missing required environment variable">>, <<>>)
       ELSE Goto("download_logs", <<Ev("[SELF_HEAL] repo=", <<>>)>>)
    /\ UNCHANGED <<env, fs, head, index, remote, logs_text, response, patches, doc, k, exitCode, probe>>

\* main, lines 394-404: the environment is read; a missing required variable raises,
\* a missing REPO_WRITE_TOKEN returns.
ReadEnv ==
    /\ pc = "main"
    /\ IF \E v \in RequiredEnv : ~env[v]
       THEN Raise("ValueError", <<"Missing required environment variable">>, <<>>)
       ELSE IF ~env["REPO_WRITE_TOKEN"]
       THEN Return(<<Ev("[SELF_HEAL] repo=", <<>>), Ev("[SELF_HEAL] Missing REPO_WRITE_TOKEN", <<>>)>>)
       ELSE Goto("download_logs", <<Ev("[SELF_HEAL] repo=", <<>>)>>)
    /\ UNCHANGED <<env, fs, head, index, remote, logs_text, response, patches, doc, k, exitCode, probe>>

\* The texts of log files: a passing step, the numeric-overflow failure, the
\* missing-property failure.
LogTexts == { <<"o","k">>, <<"E",":"," ">> \o SIG_UINT32, SIG_PROPERTY \o <<".">> }

\* "1.txt", "2.txt"
LogNames == { <<"1",".","t","x","t">>, <<"2",".","t","x","t">> }

\* The log archives: no member, one member, two members.
Bundles ==
    {[n \in {} |-> <<>>]}
        \cup {[n \in {<<"1",".","t","x","t">>} |-> t] : t \in LogTexts}
        \cup {[n \in LogNames |-> IF n = <<"1",".","t","x","t">> THEN <<"o","k">>
                                  ELSE SIG_PROPERTY \o <<".">>]}

\* What a GET can answer: a connection failure or timeout (error), or a response with
\* its status, whether it has a Location header, its body as a zip and as text.
HttpError == [error |-> TRUE, status |-> <<>>, location |-> FALSE, zip |-> "none",
              bundle |-> [n \in {} |-> <<>>], text |-> <<>>]

HttpResponse(status, location, zip, bundle) ==
    [error |-> FALSE, status |-> status, location |-> location, zip |-> zip,
     bundle |-> bundle, text |-> IF zip = "none" THEN <<"N","o">> ELSE <<"P","K">>]

\* The answers of the logs endpoint.
FirstResponses ==
    {HttpError}
        \cup {HttpResponse(OK_CODE, FALSE, "valid", b) : b \in Bundles}
        \cup {HttpResponse(OK_CODE, FALSE, z, [n \in {} |-> <<>>]) : z \in {"partial", "none"}}
        \cup {HttpResponse(<<"3","0","2">>, l, "none", [n \in {} |-> <<>>]) : l \in BOOLEAN}
        \cup {HttpResponse(<<"4","0","4">>, FALSE, "none", [n \in {} |-> <<>>])}

\* The answers of the redirect target.
SecondResponses ==
    {HttpError}
        \cup {HttpResponse(OK_CODE, FALSE, "valid", b) : b \in Bundles}
        \cup {HttpResponse(OK_CODE, FALSE, "none", [n \in {} |-> <<>>])}
        \cup {HttpResponse(<<"5","0","0">>, FALSE, "none", [n \in {} |-> <<>>])}

\* main, line 406: download_logs(repo, run_id, repo_token)
DownloadLogs ==
    /\ pc = "download_logs"
    /\ \E first \in FirstResponses, second \in SecondResponses :
          LET r == download_logs(fs, first, second)
          IN  /\ fs' = r.fs
              /\ IF r.end = "GET raised"
                 THEN Raise("RequestException", <<"GET failed">>, <<Ev("download_logs", <<r.end>>)>>)
                 ELSE Goto("collect_logs_text", <<Ev("download_logs", <<r.end>>)>>)
    /\ UNCHANGED <<env, head, index, remote, logs_text, response, patches, doc, k, exitCode, probe>>

\* main, line 407: logs_text = collect_logs_text()
CollectLogs ==
    /\ pc = "collect_logs_text"
    /\ logs_text' = collect_logs_text(fs)
    /\ Goto("try_builtin_fixes", <<Ev("collect_logs_text", <<>>)>>)
    /\ UNCHANGED <<env, fs, head, index, remote, response, patches, doc, k, exitCode, probe>>

\* A main that asks for the key whatever try_builtin_fixes returned.
AfterFixes_fall(changed) == "check_key"

\* main, lines 410-414: where main goes on after try_builtin_fixes returned changed
AfterFixes(changed) == IF changed THEN "maybe_commit_and_push" ELSE "check_key"

\* main, lines 410-412: if try_builtin_fixes(logs_text): maybe_commit_and_push(branch)
TryBuiltinFixes ==
    /\ pc = "try_builtin_fixes"
    /\ LET r == try_builtin_fixes(fs, logs_text)
       IN  /\ fs' = r.fs
           /\ Goto(AfterFixes(r.changed),
                   <<Ev("try_builtin_fixes", <<r.changed>>)>>
                       \o [i \in 1..Len(r.ran) |-> Ev(r.ran[i].fixer, <<r.ran[i].changed>>)])
    /\ UNCHANGED <<env, head, index, remote, logs_text, response, patches, doc, k, exitCode, probe>>

\* main, lines 414-418: without OPENAI_API_KEY main returns, else the prompt is built
BuildPrompt ==
    /\ pc = "check_key"
    /\ IF ~env["OPENAI_API_KEY"]
       THEN Return(<<Ev("[SELF_HEAL] Missing OPENAI_API_KEY", <<>>)>>)
       ELSE Goto("call_openai", <<Ev("build_prompt", <<>>)>>)
    /\ UNCHANGED <<env, fs, head, index, remote, logs_text, response, patches, doc, k, exitCode, probe>>

\* The response holds no blocks and no text.
NoDoc == Doc(<<>>, <<>>, <<>>, [sep |-> <<"\n">>, final |-> FALSE], <<>>)

\* The responses the model gives in a whole run: at most one block, then maybe an
\* unterminated one.
MainDocs ==
    {Doc(<<>>, b, o, [sep |-> <<"\n">>, final |-> FALSE], [i \in 1..Headers(b, o) |-> PathOf(i)]) :
        b \in {<<>>, << << << <<"x">> >>, <<>> >> >>}, o \in {<<>>, << << <<"x">> >> >>}}
        \cup {Doc(<<>>, << << << <<"x">> >>, <<>> >> >>, <<>>, [sep |-> <<"\n">>, final |-> FALSE],
                  << <<"t","o","o","l","s">> >>)}

\* main, line 419: response = call_openai(openai_key, prompt). The POST fails, or
\* answers with another status than 200, or with JSON of another shape, or with d.
CallOpenAI ==
    /\ pc = "call_openai"
    /\ \E answer \in {"error", "status", "shape", "ok"}, d \in MainDocs :
          IF answer = "ok"
          THEN /\ response' = Render(d)
               /\ doc' = d
               /\ Goto("parse_patches", <<Ev("call_openai", <<>>)>>)
          ELSE /\ Raise(IF answer = "error" THEN "RequestException" ELSE "RuntimeError",
                        <<"OpenAI API failed">>, <<Ev("call_openai", <<>>)>>)
               /\ UNCHANGED <<response, doc>>
    /\ UNCHANGED <<env, fs, head, index, remote, logs_text, patches, k, exitCode, probe>>

\* A main that goes on to apply and commit whatever parse_patches returned.
ParsePatches_goon ==
    /\ pc = "parse_patches"
    /\ LET r == parse_patches(response)
       IN  IF r.raised
           THEN /\ Raise("RuntimeError", r.value, <<Ev("parse_patches", <<>>)>>)
                /\ UNCHANGED patches
           ELSE /\ patches' = r.value
                /\ Goto(IF r.value = <<>> THEN "maybe_commit_and_push" ELSE "apply_patches",
                        <<Ev("parse_patches", <<>>), Ev("apply_patches", <<>>)>>)
    /\ k' = 1
    /\ UNCHANGED <<env, fs, head, index, remote, logs_text, response, doc, exitCode, probe>>

\* main, lines 420-423: patches = parse_patches(response); no patch: warn and return
ParsePatches ==
    /\ pc = "parse_patches"
    /\ LET r == parse_patches(response)
       IN  IF r.raised
           THEN /\ Raise("RuntimeError", r.value, <<Ev("parse_patches", <<>>)>>)
                /\ UNCHANGED patches
           ELSE /\ patches' = r.value
                /\ IF r.value = <<>>
                   THEN Return(<<Ev("parse_patches", <<>>),
                                 Ev("[SELF_HEAL_WARN] OpenAI response contained no FILE blocks", <<>>)>>)
                   ELSE Goto("apply_patches", <<Ev("parse_patches", <<>>), Ev("apply_patches", <<>>)>>)
    /\ k' = 1
    /\ UNCHANGED <<env, fs, head, index, remote, logs_text, response, doc, exitCode, probe>>

\* After patch k of apply_patches: the next patch, or main's line 425.
AfterPatch(events) ==
    /\ IF k = Len(patches)
       THEN Goto("maybe_commit_and_push", events)
       ELSE Goto("apply_patches", events)
    /\ k' = k + 1

\* apply_patches, lines 358-365: one turn of the loop, for patches[k]
ApplyPatch ==
    /\ pc = "apply_patches"
    /\ k <= Len(patches)
    /\ LET rel_path == patches[k].path
           target   == ResolveInRepo(rel_path)
           made     == Mkdir(fs, Parent(target))
       IN  IF ~PathAccepted(target)
           THEN /\ AfterPatch(<<Ev("[WARN] Skipping path outside repo", rel_path)>>)
                /\ fs' = fs
           ELSE IF MkdirFails(fs, Parent(target))
           THEN /\ Raise("OSError", <<"mkdir failed">>, <<Ev("mkdir", target)>>)
                /\ UNCHANGED <<fs, k>>
           ELSE IF WriteFails(made, target)
           THEN /\ Raise("OSError", <<"write_text failed">>, <<Ev("write_text", target)>>)
                /\ fs' = made
                /\ k' = k
           ELSE /\ AfterPatch(<<Ev("write_text", target), Ev("[APPLIED]", rel_path)>>)
                /\ fs' = WriteText(made, target, patches[k].content)
    /\ UNCHANGED <<env, head, index, remote, logs_text, response, patches, doc, exitCode, probe>>

(***************************************************************************)
(* The commit/push controller: maybe_commit_and_push                       *)
(***************************************************************************)

\* run(cmd) with check=True: the command fails and CalledProcessError is raised,
\* or it succeeds and the next statement runs.
RunGit(cmd, ok, at, events) ==
    IF ok
    THEN Goto(at, <<Ev(cmd, <<>>)>> \o events)
    ELSE Raise("CalledProcessError", <<"returned non-zero exit status">>, <<Ev(cmd, <<>>)>>)

\* A controller that leaves the log directory in place.
ClearLogDir_skip(files) == files

\* lines 370-371: if LOG_DIR.exists(): shutil.rmtree(LOG_DIR)
ClearLogDir(files) == IF Exists(files, LOG_DIR) THEN Rmtree(files, LOG_DIR) ELSE files

\* lines 370-371: the log directory is removed before anything else
RemoveLogDir ==
    /\ pc = "maybe_commit_and_push"
    /\ fs' = ClearLogDir(fs)
    /\ Goto("git_status", <<Ev("maybe_commit_and_push", <<>>)>>)
    /\ UNCHANGED <<env, head, index, remote, logs_text, response, patches, doc, k, exitCode, probe>>

\* A controller that goes on whatever git status listed.
GitStatus_always ==
    /\ pc = "git_status"
    /\ \E ok \in BOOLEAN : RunGit("git status", ok, "git_config_name", <<>>)
    /\ UNCHANGED <<env, fs, head, index, remote, logs_text, response, patches, doc, k, exitCode, probe>>

\* lines 373-376: git status --porcelain; nothing listed: report and return
GitStatus ==
    /\ pc = "git_status"
    /\ \E ok \in BOOLEAN :
          IF ok /\ StatusOf(fs, head) = {}
          THEN Return(<<Ev("git status", <<>>), Ev("[INFO] No changes to commit", <<>>)>>)
          ELSE RunGit("git status", ok, "git_config_name", <<>>)
    /\ UNCHANGED <<env, fs, head, index, remote, logs_text, response, patches, doc, k, exitCode, probe>>

\* line 377: git config user.name agentic-bot
GitConfigName ==
    /\ pc = "git_config_name"
    /\ \E ok \in BOOLEAN : RunGit("git config user.name", ok, "git_config_email", <<>>)
    /\ UNCHANGED <<env, fs, head, index, remote, logs_text, response, patches, doc, k, exitCode, probe>>

\* line 378: git config user.email agentic-bot@local
GitConfigEmail ==
    /\ pc = "git_config_email"
    /\ \E ok \in BOOLEAN : RunGit("git config user.email", ok, "git_add", <<>>)
    /\ UNCHANGED <<env, fs, head, index, remote, logs_text, response, patches, doc, k, exitCode, probe>>

\* line 379: git add .
GitAdd ==
    /\ pc = "git_add"
    /\ \E ok \in BOOLEAN :
          /\ RunGit("git add", ok, "git_commit", <<>>)
          /\ index' = IF ok THEN <<fs.files>> ELSE index
    /\ UNCHANGED <<env, fs, head, remote, logs_text, response, patches, doc, k, exitCode, probe>>

\* A commit run without check: the controller goes on to the push whether or not
\* git made the commit.
GitCommit_unchecked ==
    /\ pc = "git_commit"
    /\ \E ok \in BOOLEAN :
          /\ Goto("git_push", <<Ev("git commit", <<>>), Ev("print commit output", <<>>)>>)
          /\ head' = IF ok THEN index[1] ELSE head
    /\ UNCHANGED <<env, fs, index, remote, logs_text, response, patches, doc, k, exitCode, probe>>

\* lines 380-384: git commit -m "Self-heal: fix pipeline", its output printed
GitCommit ==
    /\ pc = "git_commit"
    /\ \E ok \in BOOLEAN :
          /\ RunGit("git commit", ok, "git_push", <<Ev("print commit output", <<>>)>>)
          /\ head' = IF ok THEN index[1] ELSE head
    /\ UNCHANGED <<env, fs, index, remote, logs_text, response, patches, doc, k, exitCode, probe>>

\* lines 385-390: git push origin branch, its output and "[INFO] Changes pushed" printed
GitPush ==
    /\ pc = "git_push"
    /\ \E ok \in BOOLEAN :
          /\ IF ok
             THEN Return(<<Ev("git push", <<>>), Ev("print push output", <<>>),
                           Ev("[INFO] Changes pushed", <<>>)>>)
             ELSE RunGit("git push", FALSE, "git_push", <<>>)
          /\ remote' = IF ok THEN head ELSE remote
    /\ UNCHANGED <<env, fs, head, index, logs_text, response, patches, doc, k, exitCode, probe>>

(***************************************************************************)
(* The __main__ guard                                                      *)
(***************************************************************************)

\* A guard that lets the exception end the process: no warning, status 1.
TopLevelExcept_fatal ==
    /\ pc = "except"
    /\ pc' = "exited"
    /\ exitCode' = 1
    /\ UNCHANGED <<env, fs, head, index, remote, logs_text, response, patches, doc, k, exc, hist, probe>>

\* lines 431-432: except Exception as exc: the warning is written to stderr
TopLevelExcept ==
    /\ pc = "except"
    /\ pc' = "sys_exit"
    /\ hist' = Append(hist, Ev("[SELF_HEAL_WARN]", exc.msg))
    /\ UNCHANGED <<env, fs, head, index, remote, logs_text, response, patches, doc, k, exc, exitCode, probe>>

\* The status sys.exit is called with.
EXIT_STATUS == 0

\* line 433: sys.exit(0)
SysExit ==
    /\ pc = "sys_exit"
    /\ pc' = "exited"
    /\ exitCode' = EXIT_STATUS
    /\ UNCHANGED <<env, fs, head, index, remote, logs_text, response, patches, doc, k, exc, hist, probe>>

(***************************************************************************)
(* A whole run                                                             *)
(***************************************************************************)

\* "tools"
TOOLS_DIR == REPO_ROOT \o << <<"t","o","o","l","s">> >>

\* The checked-out repository without tools/common.ps1.
BareRepo == [dirs |-> {<<>>, REPO_ROOT, TOOLS_DIR}, files |-> [f \in {} |-> <<>>]]

\* Texts of tools/common.ps1: nothing to fix; the overflow literal; the CIDR function
\* and a call site of the address prefixes.
MainScripts ==
    { <<"#"," ","o","k","\n">>,
      <<"$","m"," ","="," ">> \o RE_UINT32 \o RE_HEX \o <<NL>>,
      CIDR_MARKER \o <<NL, " ", " ">> \o PARAM_OPEN \o <<"$","C","i","d","r",")","\n","}","\n","$","p","."
          >> \o CALL_A \o <<NL>> }

\* The repositories a run starts in: with or without tools/common.ps1.
MainRepos == {BareRepo} \cup {WriteText(BareRepo, COMMON_PS1, t) : t \in MainScripts}

\* The same, with or without a log directory left by an earlier run.
WithStaleLogs(repos) ==
    repos \cup {WriteText(Mkdir(r, LOG_DIR), Append(LOG_DIR, <<"1",".","t","x","t">>), <<"o","l","d">>) : r \in repos}

\* The files of fs that are not below LOG_DIR.
Tracked(files) == [f \in {g \in DOMAIN files : ~IsPrefix(LOG_DIR, g)} |-> files[f]]

\* collect_logs_text is not called by itself.
NoProbe == [n |-> 0, step |-> 0, two |-> FALSE, called |-> FALSE]

\* The process starts: a clean checkout of the branch, nothing staged, origin at
\* the same commit.
Start(at, repos) ==
    /\ pc = at
    /\ fs \in repos
    /\ head = Tracked(fs.files)
    /\ index = <<>>
    /\ remote = head
    /\ exc = NoExc
    /\ exitCode = -1
    /\ probe = NoProbe

Init ==
    /\ Start("main", WithStaleLogs(MainRepos))
    /\ env \in [RequiredEnv \cup OptionalEnv -> BOOLEAN]
    /\ logs_text = <<>>
    /\ response = <<>>
    /\ patches = <<>>
    /\ doc = NoDoc
    /\ k = 1
    /\ hist = <<>>

Commit ==
    \/ RemoveLogDir
    \/ GitStatus
    \/ GitConfigName
    \/ GitConfigEmail
    \/ GitAdd
    \/ GitCommit
    \/ GitPush

Next ==
    \/ ReadEnv
    \/ DownloadLogs
    \/ CollectLogs
    \/ TryBuiltinFixes
    \/ BuildPrompt
    \/ CallOpenAI
    \/ ParsePatches
    \/ ApplyPatch
    \/ Commit
    \/ TopLevelExcept
    \/ SysExit

Spec == Init /\ [][Next]_vars

\* The guard of __main__ always runs on: the except clause writes its warning and
\* sys.exit is called, neither waits for anything.
SpecGuard == Spec /\ WF_vars(TopLevelExcept) /\ WF_vars(SysExit)

\* The same, and the test of the key at main's line 414 always runs on too: it
\* reads a variable and prints, and waits for nothing.
SpecReturn == SpecGuard /\ WF_vars(BuildPrompt)

(***************************************************************************)
(* The AI path alone: from the model's answer to the end of the run        *)
(***************************************************************************)

\* The most patches of a generated patch set.
MaxPatches == 3

\* Paths a response may name: new files in the repository, paths that leave it,
\* the repository root itself, a directory, and a path below a regular file:
\* "a.t", "s/b", "../o.t", "/o.t", ".", "tools", "tools/common.ps1/z".
PatchPaths ==
    { <<"a",".","t">>,
      <<"s","/","b">>,
      <<".",".","/","o",".","t">>,
      <<"/","o",".","t">>,
      <<".">>,
      <<"t","o","o","l","s">>,
      <<"t","o","o","l","s","/","c","o","m","m","o","n",".","p","s","1","/","z">> }

\* A block of the one line "x", with no free text after it.
OneLine == << << <<"x">> >>, <<>> >>

\* Lines end with "\n", and the last line is not ended.
PlainEol == [sep |-> <<"\n">>, final |-> FALSE]

\* The responses of one to n well-terminated one-line blocks, with any paths.
PathDocs(n) ==
    {Doc(<<>>, [i \in 1..Len(ps) |-> OneLine], <<>>, PlainEol, ps) :
        ps \in UNION {[1..m -> PatchPaths] : m \in 1..n}}

\* The repository when the model's answer arrives: tools/common.ps1 needed no fix,
\* and one log file was downloaded.
RepoAtParse ==
    WriteText(Mkdir(WriteText(BareRepo, COMMON_PS1, <<"#"," ","o","k","\n">>), LOG_DIR),
              Append(LOG_DIR, <<"1",".","t","x","t">>), <<"o","k">>)

\* What main did before the model's answer arrived.
HistAtParse ==
    <<Ev("[SELF_HEAL] repo=", <<>>),
      Ev("download_logs", <<"extracted">>),
      Ev("collect_logs_text", <<>>),
      Ev("try_builtin_fixes", <<FALSE>>),
      Ev("fix_common_ps_uint32_hex_overflow", <<FALSE>>),
      Ev("build_prompt", <<>>),
      Ev("call_openai", <<>>)>>

\* main at line 420, with any response of the generated ones.
InitAI ==
    /\ Start("parse_patches", {RepoAtParse})
    /\ env = [v \in RequiredEnv \cup OptionalEnv |-> TRUE]
    /\ logs_text = collect_logs_text(fs)
    /\ doc \in Docs(MaxBlocks) \cup PathDocs(MaxPatches)
    /\ response = Render(doc)
    /\ patches = <<>>
    /\ k = 1
    /\ hist = HistAtParse

NextAI ==
    \/ ParsePatches
    \/ ApplyPatch
    \/ Commit
    \/ TopLevelExcept
    \/ SysExit

SpecAI == InitAI /\ [][NextAI]_vars

(***************************************************************************)
(* The deterministic fixers alone: any calls, in any order                 *)
(***************************************************************************)

\* The most pieces a generated tools/common.ps1 is made of.
MaxFragments == 2

\* The most calls of fixers in one run of the harness.
MaxCalls == 2

\* Pieces of tools/common.ps1: a comment; the overflow literal, spaced and in lower
\* case; both address-prefix call sites, the second also without its line end and
\* without its first nine characters; the function the helper goes before; the CIDR
\* function with its param line and its prefix parsing; the CIDR function with a
\* parameter block of three lines; the CIDR function without parameters, followed by
\* another function that has a param line.
Fragments ==
    { <<"#"," ","o","k","\n">>,
      <<"$","m"," ","="," ","[","u","i","n","t","3","2","]"," ","0","x","f","f","f","f","f","f","f","f","\n">>,
      <<"$","p",".">> \o CALL_A \o <<NL>>,
      CALL_B \o <<NL>>,
      CALL_B,
      SubSeq(CALL_B, 10, Len(CALL_B)) \o <<NL>>,
      OVERLAP_MARKER \o <<NL, "}", NL>>,
      CIDR_MARKER \o <<NL, " ", " ">> \o PARAM_OPEN \o <<"$","C","i","d","r",")",NL," "," ">>
          \o PREFIX_OLD \o <<"}", NL>>,
      CIDR_MARKER \o <<"\n"," "," ">> \o PARAM_OPEN \o <<"\n"," "," "," "," ","[","s","t","r","i","n","g","]","$","C","i","d","r","\n"," "," ",")","\n","}","\n">>,
      CIDR_MARKER \o <<"\n"," "," ","$","x"," ","="," ","1","\n","}","\n","f","u","n","c","t","i","o","n"," ","O","t","h","e","r"," ","{","\n"," "," ">> \o PARAM_OPEN \o <<"$","y",")","\n","}","\n">> }

\* The texts made of one to n pieces.
RECURSIVE Scripts(_)
Scripts(n) ==
    IF n = 0 THEN {<<>>}
    ELSE Scripts(n - 1) \cup {t \o f : t \in Scripts(n - 1), f \in Fragments}

\* The repositories the fixers are called in: without tools/common.ps1, or with one
\* of the generated texts.
FixRepos == {BareRepo} \cup {WriteText(BareRepo, COMMON_PS1, t) : t \in Scripts(MaxFragments)}

\* The logs try_builtin_fixes is called with: no signature, the missing-property one,
\* the numeric-overflow one, the missing-property and the CIDR-format ones.
FixLogs ==
    { <<>>, SIG_PROPERTY, SIG_UINT32, SIG_PROPERTY \o <<NL>> \o INVALID_CIDR }

\* if not path.exists(): return False
NoScript == FixResult(<<>>, FALSE)

\* path.exists() for tools/common.ps1
HasScript(files) == COMMON_PS1 \in DOMAIN files.files

\* One call of a fixer: the file is written when the fixer changed the text, and
\* what it returned is recorded.
CallFixer(name, fixed) ==
    /\ Len(hist) < MaxCalls
    /\ fs' = RunFixer(fs, fixed)
    /\ hist' = Append(hist, Ev(name, <<fixed.changed>>))
    /\ UNCHANGED <<pc, env, head, index, remote, logs_text, response, patches, doc, k, exc, exitCode, probe>>

CallFixOverflow ==
    /\ pc = "fixers"
    /\ CallFixer("fix_common_ps_uint32_hex_overflow",
                 IF HasScript(fs) THEN fix_common_ps_uint32_hex_overflow(fs.files[COMMON_PS1]) ELSE NoScript)

CallFixPrefixes ==
    /\ pc = "fixers"
    /\ CallFixer("fix_common_ps_address_prefixes",
                 IF HasScript(fs) THEN fix_common_ps_address_prefixes(fs.files[COMMON_PS1]) ELSE NoScript)

CallFixCidr ==
    /\ pc = "fixers"
    /\ CallFixer("fix_common_ps_cidr_validation",
                 IF HasScript(fs) THEN fix_common_ps_cidr_validation(fs.files[COMMON_PS1]) ELSE NoScript)

\* One call of try_builtin_fixes(logs_text).
CallTryBuiltinFixes ==
    /\ pc = "fixers"
    /\ Len(hist) < MaxCalls
    /\ LET r == try_builtin_fixes(fs, logs_text)
       IN  /\ fs' = r.fs
           /\ hist' = Append(hist, Ev("try_builtin_fixes", <<r.changed>>))
    /\ UNCHANGED <<pc, env, head, index, remote, logs_text, response, patches, doc, k, exc, exitCode, probe>>

InitFix ==
    /\ Start("fixers", FixRepos)
    /\ env = [v \in RequiredEnv \cup OptionalEnv |-> TRUE]
    /\ logs_text \in FixLogs
    /\ response = <<>>
    /\ patches = <<>>
    /\ doc = NoDoc
    /\ k = 1
    /\ hist = <<>>

NextFix ==
    \/ CallFixOverflow
    \/ CallFixPrefixes
    \/ CallFixCidr
    \/ CallTryBuiltinFixes

SpecFix == InitFix /\ [][NextFix]_vars

(***************************************************************************)
(* Log reduction alone: log files around the character budget              *)
(***************************************************************************)

\* How far below and above the budget the generated logs go.
MaxOver == 3

\* The characters of a generated log text.
Digits == <<"0","1","2","3","4","5","6","7","8","9">>

\* A log text of n characters: the i-th is the last digit of i * step.
LogOf(n, step) == [i \in 1..n |-> Digits[((i * step) % 10) + 1]]

\* The length of the part of a log file named "1.txt" beyond its text:
\* "--- 1.txt ---\n" and the "\n" after the text.
PART_EXTRA == 15

\* The repository with gh_run_logs/1.txt of n characters, and with gh_run_logs/2.txt
\* ("ok") as well when two.
LogRepo(n, step, two) ==
    LET one == WriteText(Mkdir(BareRepo, LOG_DIR), Append(LOG_DIR, <<"1",".","t","x","t">>),
                         LogOf(n, step))
    IN  IF two THEN WriteText(one, Append(LOG_DIR, <<"2",".","t","x","t">>), <<"o","k">>)
        ELSE one

\* The log directories collect_logs_text is called on, each given by the length and
\* the step of the text of 1.txt and by whether 2.txt is there: the combined text is
\* from MaxOver characters below the budget to MaxOver above it with one file, and
\* 19 characters longer with two.
Probes ==
    {[n |-> MAX_LOG_CHARS - PART_EXTRA + d, step |-> step, two |-> two, called |-> FALSE] :
        d \in (0 - MaxOver)..MaxOver, step \in {1, 3, 7, 9}, two \in BOOLEAN}

\* The repository of a probe.
ProbeRepo == LogRepo(probe.n, probe.step, probe.two)

\* collect_logs_text() called on the log directory of the probe: the length of
\* what it returned is recorded (the texts themselves are recomputed from the
\* probe where they are needed, so that a state stays small).
CollectProbe ==
    /\ pc = "collect_probe"
    /\ ~probe.called
    /\ probe' = [probe EXCEPT !.called = TRUE]
    /\ hist' = Append(hist, Ev("collect_logs_text", <<Len(collect_logs_text(ProbeRepo))>>))
    /\ UNCHANGED <<pc, env, fs, head, index, remote, logs_text, response, patches, doc, k, exc, exitCode>>

InitLogs ==
    /\ pc = "collect_probe"
    /\ probe \in Probes
    /\ fs = BareRepo
    /\ head = Tracked(fs.files)
    /\ index = <<>>
    /\ remote = head
    /\ exc = NoExc
    /\ exitCode = -1
    /\ env = [v \in RequiredEnv \cup OptionalEnv |-> TRUE]
    /\ logs_text = <<>>
    /\ response = <<>>
    /\ patches = <<>>
    /\ doc = NoDoc
    /\ k = 1
    /\ hist = <<>>

NextLogs == CollectProbe

SpecLogs == InitLogs /\ [][NextLogs]_vars

(***************************************************************************)
(* The commit/push controller alone, called again after it returned        *)
(***************************************************************************)

\* maybe_commit_and_push(branch) is called again after it returned, nothing having
\* touched the working tree in between.
CallAgain ==
    /\ pc = "sys_exit"
    /\ exc = NoExc
    /\ Cardinality(Places("maybe_commit_and_push")) < MaxCalls
    /\ pc' = "maybe_commit_and_push"
    /\ UNCHANGED <<env, fs, head, index, remote, logs_text, response, patches, doc, k, exc, hist,
                   exitCode, probe>>

\* The controller is called in any working tree, with or without a log directory,
\* on any commit: with changes to commit or without.
InitTwice ==
    /\ pc = "maybe_commit_and_push"
    /\ fs \in WithStaleLogs(MainRepos)
    /\ head \in {Tracked(r.files) : r \in MainRepos}
    /\ index = <<>>
    /\ remote = head
    /\ exc = NoExc
    /\ exitCode = -1
    /\ probe = NoProbe
    /\ env = [v \in RequiredEnv \cup OptionalEnv |-> TRUE]
    /\ logs_text = <<>>
    /\ response = <<>>
    /\ patches = <<>>
    /\ doc = NoDoc
    /\ k = 1
    /\ hist = <<>>

NextTwice ==
    \/ Commit
    \/ CallAgain

SpecTwice == InitTwice /\ [][NextTwice]_vars

(***************************************************************************)
(* Claims about the patch protocol parser                                  *)
(***************************************************************************)

\* content ends with "\n" and with no second one before it
OneTrailingNewline(content) ==
    /\ Len(content) >= 1
    /\ content[Len(content)] = NL
    /\ Len(content) = 1 \/ content[Len(content) - 1] # NL

\* C1: once parse_patches has run on a response of N well-terminated blocks (with
\* free text, fences, padded markers and either line ending around them), patches
\* holds exactly N patches, the k-th under the path of the k-th header, each content
\* ending with exactly one newline.
C1_ParseYieldsEveryBlock ==
    (Happened("parse_patches") /\ doc.open = <<>>) =>
        /\ Len(patches) = Len(doc.blocks)
        /\ \A i \in 1..Len(patches) :
              /\ patches[i].path = doc.paths[i]
              /\ OneTrailingNewline(patches[i].content)

\* C1: a response of two blocks after free text, one body empty and one with
\* trailing blank lines, has been parsed.
C1_Witness ==
    /\ Happened("parse_patches")
    /\ doc.open = <<>>
    /\ doc.lead # <<>>
    /\ Len(doc.blocks) = 2
    /\ doc.blocks[1][1] = <<>>
    /\ doc.blocks[2][1] = << <<"x">>, <<>>, <<>> >>
    /\ doc.eol.final
    /\ Len(patches) = 2

\* C2: once parse_patches has run on a response whose last block has no terminator,
\* the error that names this block's path is the exception of the run, patches holds
\* nothing (also when earlier blocks were well terminated), no file was written and
\* maybe_commit_and_push was not called.
C2_UnterminatedBlockAbortsTheRun ==
    (Happened("parse_patches") /\ doc.open # <<>>) =>
        /\ exc = [type |-> "RuntimeError", msg |-> MissingTerminator(doc.paths[Len(doc.paths)])]
        /\ patches = <<>>
        /\ fs = RepoAtParse
        /\ ~Happened("apply_patches")
        /\ ~Happened("write_text")
        /\ ~Happened("maybe_commit_and_push")
        /\ pc \in {"except", "sys_exit", "exited"}

\* C2: a run has ended whose response had two well-terminated blocks and then an
\* unterminated one.
C2_Witness ==
    /\ Happened("parse_patches")
    /\ doc.open # <<>>
    /\ Len(doc.blocks) = 2
    /\ pc = "exited"

(***************************************************************************)
(* Claims about apply_patches                                              *)
(***************************************************************************)

\* apply_patches was called and has returned or raised.
ApplyEnded == Happened("apply_patches") /\ pc # "apply_patches"

\* The resolved path of patch i.
TargetOf(i) == ResolveInRepo(patches[i].path)

\* Patch i resolves to a strict descendant of the repository root.
Inside(i) == REPO_ROOT \in Parents(TargetOf(i))

\* Patch i resolves to neither the repository root nor a path below it.
Outside(i) == ~Inside(i) /\ TargetOf(i) # REPO_ROOT

\* Patch i was skipped with the warning.
Warned(i) ==
    \E j \in 1..Len(hist) :
        hist[j].ev = "[WARN] Skipping path outside repo" /\ hist[j].arg = patches[i].path

\* The parent directory or the file of patch i was asked of the file system.
Attempted(i) ==
    \E j \in 1..Len(hist) : hist[j].ev \in {"mkdir", "write_text"} /\ hist[j].arg = TargetOf(i)

\* Patch i was written and reported.
Applied(i) ==
    /\ \E j \in 1..Len(hist) : hist[j].ev = "[APPLIED]" /\ hist[j].arg = patches[i].path
    /\ TargetOf(i) \in DOMAIN fs.files

\* Nothing in the repository stands in the way of writing patch i.
Writable(i) ==
    /\ Inside(i)
    /\ ~MkdirFails(RepoAtParse, Parent(TargetOf(i)))
    /\ ~WriteFails(Mkdir(RepoAtParse, Parent(TargetOf(i))), TargetOf(i))

\* C3: once apply_patches has ended on a patch set with a patch that resolves outside
\* the repository root, no file exists outside the root, each such patch was skipped
\* with the warning and never asked of the file system, and every other patch that
\* the repository allows to be written, before and after it, has been written.
C3_OutsideSkippedOthersWritten ==
    (ApplyEnded /\ \E i \in 1..Len(patches) : Outside(i)) =>
        /\ \A f \in DOMAIN fs.files : IsPrefix(REPO_ROOT, f)
        /\ \A i \in 1..Len(patches) :
              /\ Outside(i) => Warned(i) /\ ~Attempted(i)
              /\ Writable(i) => Applied(i)

\* C4: no directory creation and no write is ever attempted for a path that is not a
\* strict descendant of the repository root, and once apply_patches has ended every
\* patch that resolves to such a path (the root itself included) was skipped with the
\* warning.
C4_OnlyStrictDescendantsAttempted ==
    /\ \A j \in 1..Len(hist) :
          hist[j].ev \in {"mkdir", "write_text"} => REPO_ROOT \in Parents(hist[j].arg)
    /\ ApplyEnded => \A i \in 1..Len(patches) : ~Inside(i) => Warned(i)

\* C5: when the directory creation or the write of one patch has failed, every patch
\* of the set, the ones after the failing one included, was still processed: skipped
\* with the warning or asked of the file system.
C5_FailureDoesNotStopTheRest ==
    (ApplyEnded /\ exc.type = "OSError") =>
        \A i \in 1..Len(patches) : Warned(i) \/ Attempted(i)

(***************************************************************************)
(* Claims about main and the commit/push controller                        *)
(***************************************************************************)

\* The names of the deterministic fixers.
Fixers ==
    {"fix_common_ps_uint32_hex_overflow", "fix_common_ps_address_prefixes",
     "fix_common_ps_cidr_validation"}

\* What the AI path does: the prompt, the model, the parser, the patch applier.
AIEvents ==
    {"build_prompt", "call_openai", "parse_patches", "apply_patches", "mkdir", "write_text",
     "[APPLIED]"}

\* A deterministic fixer returned True in this run.
FixerChanged == \E i \in 1..Len(hist) : hist[i].ev \in Fixers /\ hist[i].arg = <<TRUE>>

\* C6: in every run, if a deterministic fixer reported a change then no step of the
\* AI path (prompt, model call, parsing, patch application) is ever taken, and every
\* model call comes after try_builtin_fixes has returned False with every fixer it
\* ran having returned False.
C6_FixerPathExcludesAIPath ==
    /\ FixerChanged => \A i \in 1..Len(hist) : hist[i].ev \notin AIEvents
    /\ \A i \in 1..Len(hist) :
          hist[i].ev = "call_openai" =>
              /\ \E j \in 1..(i - 1) : hist[j].ev = "try_builtin_fixes" /\ hist[j].arg = <<FALSE>>
              /\ \A j \in 1..Len(hist) : hist[j].ev \in Fixers => j < i /\ hist[j].arg = <<FALSE>>

\* C6: a run has ended in which a fixer changed tools/common.ps1 and the change was
\* pushed, with the key of the model present.
C6_Witness ==
    /\ FixerChanged
    /\ env["OPENAI_API_KEY"]
    /\ Happened("[INFO] Changes pushed")
    /\ pc = "exited"

\* The files of a tree that lie below the log directory.
LogFiles(files) == {f \in DOMAIN files : IsPrefix(LOG_DIR, f)}

\* The statements of maybe_commit_and_push after the removal of the log directory.
GitSteps ==
    {"git_status", "git_config_name", "git_config_email", "git_add", "git_commit", "git_push"}

\* C7: on both paths, while the status check, the staging, the commit and the push
\* are performed the log directory does not exist, and no file of it is ever staged,
\* committed or pushed.
C7_NoLogFileStaged ==
    /\ pc \in GitSteps => ~Exists(fs, LOG_DIR) /\ LogFiles(fs.files) = {}
    /\ index # <<>> => LogFiles(index[1]) = {}
    /\ LogFiles(head) = {}
    /\ LogFiles(remote) = {}

\* C7: on the AI path, log files were extracted, a patch was applied and the changes
\* were staged.
C7_Witness ==
    /\ \E i \in 1..Len(hist) : hist[i].ev = "download_logs" /\ hist[i].arg = <<"extracted">>
    /\ logs_text # <<>>
    /\ Happened("[APPLIED]")
    /\ index # <<>>

\* What C8 says of one state: an exception that left main is in the guard or past
\* it; past the guard exactly one warning was written, with the exception's message,
\* as the last thing of the run; the process exits with status 0 only.
GuardHolds ==
    /\ exc # NoExc => pc \in {"except", "sys_exit", "exited"}
    /\ (exc # NoExc /\ pc \in {"sys_exit", "exited"}) =>
          /\ Cardinality(Places("[SELF_HEAL_WARN]")) = 1
          /\ hist[Len(hist)] = Ev("[SELF_HEAL_WARN]", exc.msg)
    /\ (exc # NoExc /\ pc = "except") => ~Happened("[SELF_HEAL_WARN]")
    /\ exitCode \in {-1, EXIT_STATUS}
    /\ pc = "exited" <=> exitCode = 0

\* C8: whatever exception leaves main, it is caught once by the guard, one warning is
\* written, and the process then terminates with exit status 0.
C8_EveryExceptionEndsInExitZero ==
    /\ []GuardHolds
    /\ (exc # NoExc) ~> (pc = "exited" /\ exitCode = 0)

\* C8: a run in which a file write failed has ended with status 0.
C8_Witness ==
    /\ exc.type = "OSError"
    /\ Happened("[SELF_HEAL_WARN]")
    /\ pc = "exited"
    /\ exitCode = 0

(***************************************************************************)
(* Claims about log retrieval                                              *)
(***************************************************************************)

\* download_logs ended without having extracted the archive.
RetrievalFailed ==
    \E i \in 1..Len(hist) : hist[i].ev = "download_logs" /\ hist[i].arg # <<"extracted">>

\* A placeholder entry is in the log directory.
PlaceholderLeft ==
    \/ Append(LOG_DIR, UNAVAILABLE_TXT) \in DOMAIN fs.files
    \/ Append(LOG_DIR, DOWNLOAD_FAILED_TXT) \in DOMAIN fs.files

\* C9: after any failure of log retrieval (a GET that fails or times out included),
\* a placeholder entry is in the log directory for as long as the directory is kept,
\* the run does not end by the failure, and a run that has ended has gone through
\* log reduction and the deterministic fixers.
C9_RetrievalFailureIsNotFatal ==
    RetrievalFailed =>
        /\ ~Happened("maybe_commit_and_push") => PlaceholderLeft
        /\ hist[Len(hist)].ev # "download_logs" \/ pc = "collect_logs_text"
        /\ pc = "exited" => Happened("collect_logs_text") /\ Happened("try_builtin_fixes")

(***************************************************************************)
(* Claims about the deterministic fixers                                   *)
(***************************************************************************)

\* The step is a call of the function that was called last before it.
SameCallAgain ==
    /\ hist # <<>>
    /\ Len(hist') = Len(hist) + 1
    /\ hist'[Len(hist')].ev = hist[Len(hist)].ev

\* C10: a fixer, or try_builtin_fixes with the same logs, called again right after
\* its own call, on the file that call left, leaves the file as it is and returns
\* False, whatever tools/common.ps1 held at first.
C10_SecondRunChangesNothing ==
    [][SameCallAgain => (fs' = fs /\ hist'[Len(hist')].arg = <<FALSE>>)]_vars

(***************************************************************************)
(* Claims about the end-to-end scenarios                                   *)
(***************************************************************************)

\* The reduced log holds the numeric-overflow signature and no other signature
\* try_builtin_fixes looks for.
OverflowSignatureOnly ==
    /\ Contains(logs_text, SIG_UINT32)
    /\ ~PrefixSignature(logs_text)
    /\ ~Contains(logs_text, INVALID_CIDR)
    /\ ~Contains(logs_text, INVALID_PREFIX)
    /\ ~Contains(logs_text, SIG_CIDR_NAME)

\* C11: once try_builtin_fixes has run on a log with the numeric-overflow signature
\* and no other one, the overflow fixer is the only fixer that was invoked, and if it
\* changed the file the run goes on to the commit without any step of the AI path.
C11_OverflowSignatureRunsOverflowFixerOnly ==
    (Happened("try_builtin_fixes") /\ OverflowSignatureOnly) =>
        /\ \A i \in 1..Len(hist) :
              hist[i].ev \in Fixers => hist[i].ev = "fix_common_ps_uint32_hex_overflow"
        /\ FixerChanged =>
              /\ \A i \in 1..Len(hist) : hist[i].ev \notin AIEvents
              /\ pc \in GitSteps \cup {"maybe_commit_and_push", "except", "sys_exit", "exited"}

\* No fixer changed a file, and the key of the model is absent or the response was
\* parsed to no patch.
NothingToDo ==
    /\ Happened("try_builtin_fixes")
    /\ ~FixerChanged
    /\ \/ ~env["OPENAI_API_KEY"]
       \/ Happened("parse_patches") /\ exc = NoExc /\ patches = <<>>

\* What C12 says of one state: a run with nothing to do is returning, has written
\* no tracked file, staged, committed and pushed nothing and never called
\* maybe_commit_and_push; in any run maybe_commit_and_push is called at most once,
\* and only after a fixer returned True or apply_patches ran on a non-empty patch set.
NoOpHolds ==
    /\ NothingToDo =>
          /\ pc \in {"check_key", "sys_exit", "exited"}
          /\ exc = NoExc
          /\ Tracked(fs.files) = head
          /\ index = <<>>
          /\ remote = head
          /\ ~Happened("maybe_commit_and_push")
          /\ pc = "exited" => exitCode = 0
    /\ Cardinality(Places("maybe_commit_and_push")) <= 1
    /\ \A i \in Places("maybe_commit_and_push") :
          \/ \E j \in 1..(i - 1) : hist[j].ev \in Fixers /\ hist[j].arg = <<TRUE>>
          \/ patches # <<>> /\ \E j \in 1..(i - 1) : hist[j].ev = "apply_patches"

\* C12: a run in which no fixer changed a file and the key is absent or the response
\* holds no patch is a no-op that ends with exit status 0, and the commit/push
\* controller runs at most once, only after a fixer's change or an applied patch set.
C12_NothingToDoIsANoOp ==
    /\ []NoOpHolds
    /\ NothingToDo ~> (pc = "exited" /\ exitCode = 0)

\* C12: a run with the key present whose response held no FILE block has ended.
C12_Witness ==
    /\ NothingToDo
    /\ env["OPENAI_API_KEY"]
    /\ Happened("[SELF_HEAL_WARN] OpenAI response contained no FILE blocks")
    /\ pc = "exited"

(***************************************************************************)
(* Claims about log reduction                                              *)
(***************************************************************************)

\* C13: for every log directory collect_logs_text was called on, what it returns has
\* at most MAX_LOG_CHARS characters (and the length that was returned is that of the
\* text); it is the whole concatenation of the path-headed log files when that is not
\* longer than the budget, and else its last MAX_LOG_CHARS characters, each character
\* at its place.
C13_LogsCutToTheTrailingBudget ==
    probe.called =>
        LET combined == CombinedLogs(ProbeRepo)
            returned == collect_logs_text(ProbeRepo)
            over     == Len(combined) - MAX_LOG_CHARS
        IN  /\ Len(returned) <= MAX_LOG_CHARS
            /\ hist[Len(hist)] = Ev("collect_logs_text", <<Len(returned)>>)
            /\ over <= 0 => returned = combined
            /\ over > 0 =>
                  /\ Len(returned) = MAX_LOG_CHARS
                  /\ \A i \in 1..MAX_LOG_CHARS : returned[i] = combined[over + i]

\* C13: the log files were longer than the budget by more than their first header,
\* so that the cut fell inside the text of 1.txt.
C13_Witness ==
    /\ probe.called
    /\ probe.two
    /\ Len(CombinedLogs(ProbeRepo)) > MAX_LOG_CHARS + PART_EXTRA
    /\ hist[Len(hist)].arg = <<MAX_LOG_CHARS>>
    /\ collect_logs_text(ProbeRepo)[1] \in {"3", "7"}

(***************************************************************************)
(* Claims about the commit/push controller                                 *)
(***************************************************************************)

\* The commands of git that write: the identity, the index, a commit, the remote.
GitWrites ==
    {"git config user.name", "git config user.email", "git add", "git commit", "git push"}

\* C14: a call of maybe_commit_and_push that finds an empty status reports it right
\* after git status and runs nothing else; and after a call that committed and
\* pushed, a call made again with no file changed runs no writing command of git.
C14_EmptyStatusStopsTheController ==
    /\ \A i \in Places("[INFO] No changes to commit") :
          /\ i >= 3
          /\ hist[i - 1].ev = "git status"
          /\ hist[i - 2].ev = "maybe_commit_and_push"
          /\ i = Len(hist) \/ hist[i + 1].ev = "maybe_commit_and_push"
    /\ \A i \in Places("[INFO] Changes pushed") :
          \A j \in (i + 1)..Len(hist) : hist[j].ev \notin GitWrites
    /\ (Happened("[INFO] Changes pushed") /\ pc \notin GitSteps \cup {"maybe_commit_and_push"}) =>
          /\ StatusOf(fs, head) = {}
          /\ remote = head

\* C14: after a commit and a push the controller was called again and reported
\* that there is nothing to commit.
C14_Witness ==
    \E i \in Places("[INFO] Changes pushed") :
        \E j \in (i + 1)..Len(hist) : hist[j].ev = "[INFO] No changes to commit"

\* The command at hist[i] is a commit or a push that git rejected: run raised, and
\* nothing but the warning of the guard follows it.
RejectedAt(i) ==
    /\ hist[i].ev \in {"git commit", "git push"}
    /\ exc.type = "CalledProcessError"
    /\ i = Len(hist) \/ hist[i + 1].ev = "[SELF_HEAL_WARN]"

\* The event that prints the captured output of a command.
OutputOf(cmd) == IF cmd = "git commit" THEN "print commit output" ELSE "print push output"

\* C15: in a run that has ended after git rejected the commit or the push, the
\* captured output of the rejected command was printed after it, and the exit status
\* is 0.
C15_RejectedCommandOutputReported ==
    \A i \in 1..Len(hist) :
        (pc = "exited" /\ RejectedAt(i)) =>
            /\ exitCode = 0
            /\ \E j \in (i + 1)..Len(hist) : hist[j].ev = OutputOf(hist[i].ev)

(***************************************************************************)
(* Claims about nested headers and the fixers' anchors                     *)
(***************************************************************************)

\* The body of block i of the response holds a line that is a FILE: header.
NestedHeader(i) ==
    \E l \in 1..Len(doc.blocks[i][1]) : StartsWith(Strip(doc.blocks[i][1][l]), FILE_MARK)

\* The blocks of the response with a header inside their body.
NestedBlocks == {i \in 1..Len(doc.blocks) : NestedHeader(i)}

\* C16: once parse_patches has run on a response in which a FILE: header line comes
\* before the terminator of the block opened before it, the run has the error that
\* names the path of that first block and patches holds nothing.
C16_HeaderBeforeTerminatorIsAViolation ==
    (Happened("parse_patches") /\ NestedBlocks # {}) =>
        /\ patches = <<>>
        /\ exc = [type |-> "RuntimeError", msg |-> MissingTerminator(doc.paths[Min(NestedBlocks)])]

\* tools/common.ps1 exists and holds neither the helper function nor the anchor the
\* helper is put before.
NoHelperNoAnchor ==
    /\ HasScript(fs)
    /\ ~Contains(fs.files[COMMON_PS1], HELPER_NAME)
    /\ ~Contains(fs.files[COMMON_PS1], OVERLAP_MARKER)

\* C17: a call of fix_common_ps_address_prefixes on a file that holds neither the
\* helper function Get-SubnetAddressPrefixes nor the anchor function Test-CidrOverlap
\* leaves the file as it is and returns False.
C17_NoAnchorNoChange ==
    [][(/\ NoHelperNoAnchor
        /\ Len(hist') = Len(hist) + 1
        /\ hist'[Len(hist')].ev = "fix_common_ps_address_prefixes")
          => (fs' = fs /\ hist'[Len(hist')].arg = <<FALSE>>)]_vars

\* "function "
FUNCTION_WORD == <<"f","u","n","c","t","i","o","n"," ">>

\* How many more "(" than ")" the lines s..e hold.
RECURSIVE ParenDepth(_, _, _)
ParenDepth(lines, s, e) ==
    IF s > e THEN 0
    ELSE Cardinality({i \in 1..Len(lines[s]) : lines[s][i] = "("})
           - Cardinality({i \in 1..Len(lines[s]) : lines[s][i] = ")"})
           + ParenDepth(lines, s + 1, e)

\* The lines end with the parameter block of Convert-CidrToRange: after the line
\* that opens the function, and before any other function, a line starts with
\* param( and its parentheses close on the last of the lines, not before.
EndsWithParamBlock(lines) ==
    \E m \in 1..Len(lines), s \in 1..Len(lines) :
        /\ m < s
        /\ Strip(lines[m]) = CIDR_MARKER
        /\ \A j \in (m + 1)..s : ~StartsWith(Strip(lines[j]), FUNCTION_WORD)
        /\ \A j \in (m + 1)..(s - 1) : ~StartsWith(Strip(lines[j]), PARAM_OPEN)
        /\ StartsWith(Strip(lines[s]), PARAM_OPEN)
        /\ ParenDepth(lines, s, Len(lines)) = 0
        /\ \A e \in s..(Len(lines) - 1) : ParenDepth(lines, s, e) > 0

\* The places of text where the inserted validation statements start.
ChecksAt(text) == {i \in 1..Len(text) : MatchAt(text, i, CIDR_CHECKS)}

\* C18: a call of fix_common_ps_cidr_validation on a file without the validation
\* leaves the validation statements in the file at most once, and where it put them
\* the text before them ends with the whole parameter block of Convert-CidrToRange.
C18_ChecksOnlyAfterTheParamBlock ==
    [][(/\ HasScript(fs)
        /\ ChecksAt(fs.files[COMMON_PS1]) = {}
        /\ Len(hist') = Len(hist) + 1
        /\ hist'[Len(hist')].ev = "fix_common_ps_cidr_validation")
          => LET out == fs'.files[COMMON_PS1]
             IN  /\ Cardinality(ChecksAt(out)) <= 1
                 /\ \A q \in ChecksAt(out) :
                       EndsWithParamBlock(SplitLinesKeep(SubSeq(out, 1, q - 1)))]_vars


\* C19: when the run has ended after download_logs created the log directory, on
\* whichever path (commit, no AI credential, zero patches, an exception caught at the
\* top level), the log directory no longer exists in the working tree.
C19_LogDirReleasedOnEveryExit ==
    (pc = "exited" /\ Happened("download_logs")) => ~Exists(fs, LOG_DIR)


(***************************************************************************)
(* Claims about the configuration                                          *)
(***************************************************************************)

\* A required variable or the write credential is missing.
Misconfigured == (\E v \in RequiredEnv : ~env[v]) \/ ~env["REPO_WRITE_TOKEN"]

\* What main and the guard print.
Diagnostics ==
    {"[SELF_HEAL] repo=", "[SELF_HEAL] Missing REPO_WRITE_TOKEN", "[SELF_HEAL_WARN]"}

\* The message about what is missing was written.
DiagnosticSaid ==
    IF \E v \in RequiredEnv : ~env[v]
    THEN \E i \in 1..Len(hist) :
            hist[i] = Ev("[SELF_HEAL_WARN]", <<"Missing required environment variable">>)
    ELSE Happened("[SELF_HEAL] Missing REPO_WRITE_TOKEN")

\* What C20 says of one state: the run is in main's first lines or leaving; nothing
\* but messages happened (no download, no fixer, no model call, no write, no git
\* command); once main is left the message was written; the exit status is 0.
EarlyReturnHolds ==
    Misconfigured =>
        /\ pc \in {"main", "except", "sys_exit", "exited"}
        /\ \A i \in 1..Len(hist) : hist[i].ev \in Diagnostics
        /\ pc \in {"sys_exit", "exited"} => DiagnosticSaid
        /\ pc = "exited" => exitCode = 0

\* C20: with a required variable or the write credential missing, the run writes a
\* message and ends with exit status 0; no step changes the working tree (the log
\* directory included), the index, the branch or the remote, and no download, fixer,
\* file write or git command happens.
C20_MissingConfigurationEndsEarly ==
    /\ []EarlyReturnHolds
    /\ [][Misconfigured =>
            (fs' = fs /\ head' = head /\ index' = index /\ remote' = remote)]_vars
    /\ (Misconfigured /\ pc # "main") ~> (pc = "exited" /\ exitCode = 0)

\* C20: a run without the run identifier, started where an earlier run left its log
\* directory, has ended with status 0 and the directory is still there.
C20_Witness ==
    /\ ~env["GITHUB_RUN_ID"]
    /\ Exists(fs, LOG_DIR)
    /\ Happened("[SELF_HEAL_WARN]")
    /\ pc = "exited"
    /\ exitCode = 0


(***************************************************************************)
(* Claims about the order of the version-control steps                     *)
(***************************************************************************)

\* The commands of maybe_commit_and_push, in the order of lines 373-385.
GitOrder ==
    <<"git status", "git config user.name", "git config user.email", "git add",
      "git commit", "git push">>

\* The place of a command in GitOrder.
RankOf(cmd) == CHOOSE r \in 1..Len(GitOrder) : GitOrder[r] = cmd

\* The events that are commands of git.
GitCommands == {GitOrder[r] : r \in 1..Len(GitOrder)}

\* The last command of git before hist[j], 0 when there is none.
PrevCommand(j) ==
    IF \E i \in 1..(j - 1) : hist[i].ev \in GitCommands
    THEN CHOOSE i \in 1..(j - 1) :
            /\ hist[i].ev \in GitCommands
            /\ \A h \in (i + 1)..(j - 1) : hist[h].ev \notin GitCommands
    ELSE 0

\* What C21 says of one state: git status is the first thing of a call of the
\* controller; every other command comes next after its predecessor in GitOrder, in
\* the same call; nothing but the commit's output is between the commit and the push;
\* the push message comes right after the push and its output.
OrderHolds ==
    /\ \A j \in 1..Len(hist) :
          hist[j].ev \in GitCommands =>
              IF RankOf(hist[j].ev) = 1
              THEN j > 1 /\ hist[j - 1].ev = "maybe_commit_and_push"
              ELSE LET i == PrevCommand(j)
                   IN  /\ i > 0
                       /\ RankOf(hist[i].ev) = RankOf(hist[j].ev) - 1
                       /\ \A h \in i..j : hist[h].ev # "maybe_commit_and_push"
    /\ \A j \in Places("git push") :
          j > 2 /\ hist[j - 1].ev = "print commit output" /\ hist[j - 2].ev = "git commit"
    /\ \A j \in Places("[INFO] Changes pushed") :
          j > 2 /\ hist[j - 1].ev = "print push output" /\ hist[j - 2].ev = "git push"

\* The events the step adds to hist.
Added == {hist'[j].ev : j \in (Len(hist) + 1)..Len(hist')}

\* C21: in maybe_commit_and_push the commands of git run in the order status,
\* user.name, user.email, add, commit, push; the push is run only when the commit was
\* made of what was staged; "[INFO] Changes pushed" is written only by a step after
\* which the commit is made and the remote holds it.
C21_GitStepsInOrder ==
    /\ []OrderHolds
    /\ [][/\ "git push" \in Added => (index # <<>> /\ head = index[1])
          /\ "[INFO] Changes pushed" \in Added =>
                (index # <<>> /\ head' = index[1] /\ remote' = head')]_vars

\* C21: a run in which all six commands ran and the push message was written has
\* ended.
C21_Witness ==
    /\ \A r \in 1..Len(GitOrder) : Happened(GitOrder[r])
    /\ Happened("[INFO] Changes pushed")
    /\ remote = head
    /\ pc = "exited"

====
